---- MODULE Spec2Model ----
(***************************************************************************)
(* Image Overlay Service (main.py): font discovery and its process-wide    *)
(* cache, the font fallback chain, the greedy text wrapper, the box layout *)
(* of add_translucent_box_with_text and the POST /overlay handler.         *)
(*                                                                         *)
(* Strings are modelled as sequences: a file name is a sequence of name    *)
(* tokens (<<"OpenSans", "-", "Regular", ".ttf">>), a content type is      *)
(* <<type, subtype>>, a text is a sequence of characters where Space is    *)
(* the whitespace character and the other characters are glyphs.           *)
(***************************************************************************)
EXTENDS Integers, Sequences, FiniteSets, TLC

VARIABLES
    started,          \* startup_event has run
    fontsDirExists,   \* FONTS_DIR.exists()
    dirFiles,         \* the files in FONTS_DIR
    font_cache,       \* _font_cache: ordered dict, a sequence of [name, file]
    firstDiscovery,   \* history: what the first discover_fonts call returned
    resp,             \* the last HTTP response, with the stages the handler ran
    fontCall,         \* a get_font call: its inputs and its result
    wrapCall,         \* a wrap_text call: its inputs and its result
    layoutCall        \* an add_translucent_box_with_text call

vars == <<started, fontsDirExists, dirFiles, font_cache, firstDiscovery, resp,
          fontCall, wrapCall, layoutCall>>

None == "None"

\* ------------------------------------------------------------------------
\* Generic sequence helpers
\* ------------------------------------------------------------------------
SeqRange(s) == {s[i] : i \in 1..Len(s)}

\* all orderings of a finite set, as sequences without repetition
Orderings(S) ==
    {s \in [1..Cardinality(S) -> S] : \A i, j \in 1..Cardinality(S) : i # j => s[i] # s[j]}

SeqsUpTo(S, n) == UNION {[1..k -> S] : k \in 0..n}

\* ------------------------------------------------------------------------
\* The fonts directory and discover_fonts
\* ------------------------------------------------------------------------
\* The files the fonts directory may hold, as name tokens.
FileUniverse ==
    { <<"OpenSans", "-", "Regular", ".ttf">>,
      <<"OpenSans", "Regular", ".ttf">>,
      <<"Lato", "-", "Regular", ".ttf">>,
      <<"Lato", "-", "Bold", ".ttf">> }

\* str.lower() on the name tokens of the universe
Lower(tok) ==
    CASE tok = "OpenSans" -> "opensans"
      [] tok = "Lato" -> "lato"
      [] tok = "Regular" -> "regular"
      [] tok = "Bold" -> "bold"
      [] OTHER -> tok

EndsWith(s, suffix) ==
    /\ Len(s) >= Len(suffix)
    /\ SubSeq(s, Len(s) - Len(suffix) + 1, Len(s)) = suffix

\* Path.stem: the name without its last suffix
Stem(file) == SubSeq(file, 1, Len(file) - 1)

\* str.replace(pattern, ""): every occurrence of the token pattern removed
RECURSIVE Remove(_, _)
Remove(s, pattern) ==
    IF s = <<>> THEN <<>>
    ELSE IF Len(s) >= Len(pattern) /\ SubSeq(s, 1, Len(pattern)) = pattern
         THEN Remove(SubSeq(s, Len(pattern) + 1, Len(s)), pattern)
         ELSE <<Head(s)>> \o Remove(Tail(s), pattern)

\* the lower-cased tokens joined to one name (the universe leaves one token)
JoinLower(toks) == IF toks = <<>> THEN "" ELSE Lower(toks[1])

\* FONTS_DIR.glob("*-Regular.ttf")
GlobHyphenRegular(files) == {f \in files : EndsWith(f, <<"-", "Regular", ".ttf">>)}

\* FONTS_DIR.glob("*Regular.ttf"), less the names ending in -Regular.ttf
GlobRegular(files) ==
    {f \in files : EndsWith(f, <<"Regular", ".ttf">>)
                   /\ ~EndsWith(f, <<"-", "Regular", ".ttf">>)}

HyphenFontName(file) == JoinLower(Remove(Stem(file), <<"-", "Regular">>))
PlainFontName(file) == JoinLower(Remove(Stem(file), <<"Regular">>))

\* An ordered dict is a sequence of [name, file] with distinct names.
Keys(d) == [i \in 1..Len(d) |-> d[i].name]
KeySet(d) == {d[i].name : i \in 1..Len(d)}
Lookup(d, k) == (CHOOSE i \in 1..Len(d) : d[i].name = k)

\* d[k] = v: an existing key keeps its position
DictSet(d, k, v) ==
    IF k \in KeySet(d)
    THEN [i \in 1..Len(d) |-> IF d[i].name = k THEN [name |-> k, file |-> v] ELSE d[i]]
    ELSE Append(d, [name |-> k, file |-> v])

\* d.update(other)
RECURSIVE DictUpdate(_, _)
DictUpdate(d, other) ==
    IF other = <<>> THEN d
    ELSE DictUpdate(DictSet(d, Head(other).name, Head(other).file), Tail(other))

\* the two glob loops, each in the order the directory listing yields
RECURSIVE ScanHyphen(_, _)
ScanHyphen(fonts, order) ==
    IF order = <<>> THEN fonts
    ELSE ScanHyphen(DictSet(fonts, HyphenFontName(Head(order)), Head(order)), Tail(order))

RECURSIVE ScanPlain(_, _)
ScanPlain(fonts, order) ==
    IF order = <<>> THEN fonts
    ELSE ScanPlain(DictSet(fonts, PlainFontName(Head(order)), Head(order)), Tail(order))

\* an empty dict is falsy: Python's "if _font_cache"
CacheHit(cache) == cache # <<>>

\* discover_fonts(): the possible outcomes [ret, cache, exists] of one call
discover_fonts(cache, exists, files) ==
    IF CacheHit(cache)
    THEN {[ret |-> cache, cache |-> cache, exists |-> exists]}
    ELSE IF ~exists
         THEN {[ret |-> <<>>, cache |-> cache, exists |-> TRUE]}
         ELSE {LET fonts == ScanPlain(ScanHyphen(<<>>, o1), o2)
               IN [ret |-> fonts, cache |-> DictUpdate(cache, fonts), exists |-> exists] :
                  o1 \in Orderings(GlobHyphenRegular(files)),
                  o2 \in Orderings(GlobRegular(files))}

\* history of the first call, kept for the once-only property
NoteFirst(first, ret) == IF first.called THEN first ELSE [called |-> TRUE, ret |-> ret]

\* ------------------------------------------------------------------------
\* get_font: the fallback chain
\* ------------------------------------------------------------------------
\* the fixed list of system font paths, in list order
font_paths ==
    << <<"/System/Library/Fonts/Supplemental/Arial.ttf">>,
       <<"/usr/share/fonts/truetype/dejavu/DejaVuSans.ttf">>,
       <<"C:\\Windows\\Fonts\\arial.ttf">> >>

SystemPaths == SeqRange(font_paths)

\* ImageFont.truetype(path, size) succeeds: the file is there and is a font
TrueTypeLoads(path, files, loadable) ==
    /\ path \in loadable
    /\ path \in FileUniverse => path \in files

Source(kind, path) == [kind |-> kind, path |-> path]
Handle(kind, path, size) == [kind |-> kind, path |-> path, size |-> size]
NotLoaded(tried) == [loaded |-> FALSE, tried |-> tried, font |-> Handle("none", <<>>, 0)]
Loaded(tried, kind, path, size) ==
    [loaded |-> TRUE, tried |-> Append(tried, Source(kind, path)),
     font |-> Handle(kind, path, size)]

\* "Try to load the requested font": only when it is in fonts and its file exists
TryNamed(size, font_name, fonts, files, loadable) ==
    IF font_name \in KeySet(fonts)
    THEN LET font_path == fonts[Lookup(fonts, font_name)].file
         IN IF font_path \in files
            THEN IF TrueTypeLoads(font_path, files, loadable)
                 THEN Loaded(<<>>, "named", font_path, size)
                 ELSE NotLoaded(<<Source("named", font_path)>>)
            ELSE NotLoaded(<<>>)
    ELSE NotLoaded(<<>>)

\* a variant that takes the last discovered font as the fallback
TryFirstTakesLast(size, fonts, files, loadable, tried) ==
    IF fonts # <<>>
    THEN LET font_path == fonts[Len(fonts)].file
         IN IF TrueTypeLoads(font_path, files, loadable)
            THEN Loaded(tried, "first", font_path, size)
            ELSE NotLoaded(Append(tried, Source("first", font_path)))
    ELSE NotLoaded(tried)

\* "try to use any available font": list(fonts.keys())[0], no exists() check
TryFirst(size, fonts, files, loadable, tried) ==
    IF fonts # <<>>
    THEN LET font_path == fonts[1].file
         IN IF TrueTypeLoads(font_path, files, loadable)
            THEN Loaded(tried, "first", font_path, size)
            ELSE NotLoaded(Append(tried, Source("first", font_path)))
    ELSE NotLoaded(tried)

\* the loop over font_paths: the first path that loads is returned
RECURSIVE TrySystem(_, _, _, _, _)
TrySystem(size, paths, files, loadable, tried) ==
    IF paths = <<>> THEN NotLoaded(tried)
    ELSE IF TrueTypeLoads(Head(paths), files, loadable)
         THEN Loaded(tried, "system", Head(paths), size)
         ELSE TrySystem(size, Tail(paths), files, loadable,
                        Append(tried, Source("system", Head(paths))))

\* ImageFont.load_default(): the built-in face, whatever size was asked
LoadDefault(size, tried) == Loaded(tried, "default", <<>>, size)

get_font(size, font_name, fonts, files, loadable) ==
    LET named == TryNamed(size, font_name, fonts, files, loadable)
    IN IF named.loaded THEN named
       ELSE LET first == TryFirst(size, fonts, files, loadable, named.tried)
            IN IF first.loaded THEN first
               ELSE LET sys == TrySystem(size, font_paths, files, loadable, first.tried)
                    IN IF sys.loaded THEN sys
                       ELSE LoadDefault(size, sys.tried)

\* ------------------------------------------------------------------------
\* Text, str.split, str.join and ImageDraw.textbbox
\* ------------------------------------------------------------------------
Space == 0          \* the whitespace character
Dash == 3           \* the em-dash of the attribution prefix
Glyphs == {1, 2}    \* 1: a narrow letter without descender, 2: a wide one with

\* str.split(): the maximal runs of non-whitespace characters, in order
RECURSIVE SplitFrom(_, _, _)
SplitFrom(text, words, word) ==
    IF text = <<>>
    THEN IF word # <<>> THEN Append(words, word) ELSE words
    ELSE IF Head(text) = Space
         THEN SplitFrom(Tail(text), IF word # <<>> THEN Append(words, word) ELSE words, <<>>)
         ELSE SplitFrom(Tail(text), words, Append(word, Head(text)))

Split(text) == SplitFrom(text, <<>>, <<>>)

\* ' '.join(words)
RECURSIVE Join(_)
Join(words) ==
    IF words = <<>> THEN <<>>
    ELSE IF Len(words) = 1 THEN words[1]
         ELSE words[1] \o <<Space>> \o Join(Tail(words))

\* ImageDraw.Draw(im).fontmode, from the image mode
FontMode(mode) == IF mode \in {"1", "P", "I", "F"} THEN "1" ELSE "L"

\* the pixel size glyphs are rendered at: the built-in face has its own
GlyphSize(font) == IF font.kind = "default" THEN 10 ELSE font.size

Advance(c, font) ==
    CASE c = Space -> GlyphSize(font) \div 4
      [] c = 1 -> GlyphSize(font) \div 4
      [] c = 2 -> GlyphSize(font) \div 2
      [] OTHER -> GlyphSize(font)

InkTop(c, font) ==
    CASE c = 1 -> GlyphSize(font) \div 4
      [] OTHER -> GlyphSize(font) \div 2

\* a bilevel rendering (fontmode "1") of the descender covers one more row
InkBottom(c, font, fontmode) ==
    CASE c = 1 -> GlyphSize(font)
      [] c = 2 -> GlyphSize(font) + GlyphSize(font) \div 4 + (IF fontmode = "1" THEN 1 ELSE 0)
      [] OTHER -> GlyphSize(font) \div 2 + GlyphSize(font) \div 8

RECURSIVE SumAdvance(_, _)
SumAdvance(text, font) ==
    IF text = <<>> THEN 0 ELSE Advance(Head(text), font) + SumAdvance(Tail(text), font)

Ink(text) == {i \in 1..Len(text) : text[i] # Space}

MinOf(S) == CHOOSE x \in S : \A y \in S : x <= y
MaxOf(S) == CHOOSE x \in S : \A y \in S : x >= y

\* draw.textbbox((0, 0), text, font=font) -> (x0, y0, x1, y1)
textbbox(fontmode, text, font) ==
    [x0 |-> 0,
     y0 |-> IF Ink(text) = {} THEN 0 ELSE MinOf({InkTop(text[i], font) : i \in Ink(text)}),
     x1 |-> SumAdvance(text, font),
     y1 |-> IF Ink(text) = {} THEN 0
            ELSE MaxOf({InkBottom(text[i], font, fontmode) : i \in Ink(text)})]

\* ------------------------------------------------------------------------
\* wrap_text
\* ------------------------------------------------------------------------
\* a variant that loses the line it closes
FlushLosesLine(lines, current_line) == lines

\* "if current_line: lines.append(' '.join(current_line))"
Flush(lines, current_line) ==
    IF current_line # <<>> THEN Append(lines, Join(current_line)) ELSE lines

\* a variant that never breaks the line
FitsAlways(width, max_width) == TRUE

\* "if width <= max_width"
Fits(width, max_width) == width <= max_width

RECURSIVE WrapLoop(_, _, _, _, _, _)
WrapLoop(words, lines, current_line, font, max_width, fontmode) ==
    IF words = <<>> THEN Flush(lines, current_line)
    ELSE LET word == Head(words)
             test_line == Join(Append(current_line, word))
             bbox == textbbox(fontmode, test_line, font)
             width == bbox.x1 - bbox.x0
         IN IF Fits(width, max_width)
            THEN WrapLoop(Tail(words), lines, Append(current_line, word),
                          font, max_width, fontmode)
            ELSE WrapLoop(Tail(words), Flush(lines, current_line), <<word>>,
                          font, max_width, fontmode)

wrap_text(text, font, max_width, fontmode) ==
    WrapLoop(Split(text), <<>>, <<>>, font, max_width, fontmode)

\* ------------------------------------------------------------------------
\* add_translucent_box_with_text: the layout
\* ------------------------------------------------------------------------
box_padding == 40
line_spacing == 10
attribution_gap == 20

Max(a, b) == IF a >= b THEN a ELSE b

\* int(img_width * 0.8); the double product truncates to floor(8w/10)
BoxWidth(img_width) == (img_width * 8) \div 10

\* max(24, int(img_width * 0.03)) and max(18, int(img_width * 0.022))
QuoteFontSize(img_width) == Max(24, (img_width * 3) \div 100)
AttributionFontSize(img_width) == Max(18, (img_width * 22) \div 1000)

\* a variant that forgets the spacing when it sums the quote height
HeightStepNoSpacing(bbox) == bbox.y1 - bbox.y0

\* "quote_height += (bbox[3] - bbox[1]) + line_spacing"
HeightStep(bbox) == (bbox.y1 - bbox.y0) + line_spacing

RECURSIVE QuoteHeight(_, _, _)
QuoteHeight(quote_lines, font, fontmode) ==
    IF quote_lines = <<>> THEN 0
    ELSE HeightStep(textbbox(fontmode, Head(quote_lines), font))
         + QuoteHeight(Tail(quote_lines), font, fontmode)

\* "— {attribution}"
AttributionText(attribution) == <<Dash, Space>> \o attribution

BoxHeight(quote_height, attribution_height) ==
    quote_height + attribution_height + (box_padding * 2) + attribution_gap

BoxX(img_width, box_width) == (img_width - box_width) \div 2

\* a variant that keeps the box on the canvas
BoxYClamped(img_height, box_height) == Max(0, (img_height - box_height) \div 2)

\* Python's // floors, as \div does
BoxY(img_height, box_height) == (img_height - box_height) \div 2

\* result_image.convert('RGBA') unless it is RGBA already
CompositeMode(mode) == IF mode # "RGBA" THEN "RGBA" ELSE mode

\* a variant that advances the cursor by the line height only
CursorStepNoSpacing(bbox) == bbox.y1 - bbox.y0

\* "current_y += (bbox[3] - bbox[1]) + line_spacing"
CursorStep(bbox) == (bbox.y1 - bbox.y0) + line_spacing

\* the draw loop: one [text, x, y] per quote line, then the final cursor
RECURSIVE DrawLines(_, _, _, _, _, _, _)
DrawLines(quote_lines, current_y, box_x, box_width, font, fontmode, drawn) ==
    IF quote_lines = <<>> THEN [drawn |-> drawn, current_y |-> current_y]
    ELSE LET line == Head(quote_lines)
             bbox == textbbox(fontmode, line, font)
             line_width == bbox.x1 - bbox.x0
             line_x == box_x + (box_width - line_width) \div 2
         IN DrawLines(Tail(quote_lines), current_y + CursorStep(bbox), box_x, box_width,
                      font, fontmode,
                      Append(drawn, [text |-> line, x |-> line_x, y |-> current_y,
                                     height |-> bbox.y1 - bbox.y0]))

add_translucent_box_with_text(image, quote, attribution, font_name, fonts, files, loadable) ==
    LET img_width == image.width
        img_height == image.height
        box_width == BoxWidth(img_width)
        quote_font == get_font(QuoteFontSize(img_width), font_name, fonts, files, loadable).font
        attribution_font ==
            get_font(AttributionFontSize(img_width), font_name, fonts, files, loadable).font
        temp_mode == FontMode("RGBA")
        max_text_width == box_width - (box_padding * 2)
        quote_lines == wrap_text(quote, quote_font, max_text_width, temp_mode)
        quote_height == QuoteHeight(quote_lines, quote_font, temp_mode)
        attr_bbox == textbbox(temp_mode, AttributionText(attribution), attribution_font)
        attribution_height == attr_bbox.y1 - attr_bbox.y0
        box_height == BoxHeight(quote_height, attribution_height)
        box_x == BoxX(img_width, box_width)
        box_y == BoxY(img_height, box_height)
        draw_mode == FontMode(CompositeMode(image.mode))
        loop == DrawLines(quote_lines, box_y + box_padding, box_x, box_width,
                          quote_font, draw_mode, <<>>)
        attr_bbox2 == textbbox(draw_mode, AttributionText(attribution), attribution_font)
        attr_width == attr_bbox2.x1 - attr_bbox2.x0
    IN [size |-> <<img_width, img_height>>,
        mode |-> CompositeMode(image.mode),
        quote_font |-> quote_font,
        attribution_font |-> attribution_font,
        max_text_width |-> max_text_width,
        quote_lines |-> quote_lines,
        quote_height |-> quote_height,
        attribution_height |-> attribution_height,
        box_width |-> box_width,
        box_height |-> box_height,
        box_x |-> box_x,
        box_y |-> box_y,
        drawn |-> loop.drawn,
        attr_x |-> box_x + box_width - attr_width - box_padding,
        attr_y |-> loop.current_y + attribution_gap,
        attr_drawn_height |-> attr_bbox2.y1 - attr_bbox2.y0]

\* ------------------------------------------------------------------------
\* The HTTP handlers
\* ------------------------------------------------------------------------
NoBox == [w |-> 0, h |-> 0, x |-> 0, y |-> 0]

NoResponse ==
    [op |-> "none", status |-> 0, kind |-> "none", content_type |-> <<>>,
     reqfont |-> None, font |-> None, names |-> <<>>, default |-> None,
     stages |-> <<>>, failAt |-> "none", box |-> NoBox]

\* "opensans" if "opensans" in fonts else (list(fonts.keys())[0] if fonts else None)
ListDefault(fonts) ==
    IF "opensans" \in KeySet(fonts) THEN "opensans"
    ELSE IF fonts # <<>> THEN Keys(fonts)[1] ELSE None

\* a variant that always takes the first discovered font
OverlayDefaultFirst(fonts) == IF fonts # <<>> THEN Keys(fonts)[1] ELSE "opensans"

\* "opensans" if "opensans" in fonts else (list(fonts.keys())[0] if fonts else "opensans")
OverlayDefault(fonts) ==
    IF "opensans" \in KeySet(fonts) THEN "opensans"
    ELSE IF fonts # <<>> THEN Keys(fonts)[1] ELSE "opensans"

\* image.content_type.startswith('image/')
StartsWithImage(content_type) == Len(content_type) >= 1 /\ content_type[1] = "image"

\* the steps inside the try block of create_overlay, in order
Pipeline == <<"read", "decode", "composite", "flatten", "encode">>

StageIndex(stage) == CHOOSE i \in 1..Len(Pipeline) : Pipeline[i] = stage

\* the steps started when the step failAt raises ("none": no step raises)
StagesRun(failAt) ==
    IF failAt = "none" THEN Pipeline ELSE SubSeq(Pipeline, 1, StageIndex(failAt))

\* a variant whose handler lets a failed encode through as a response
TryBlockStatusLenient(failAt) == IF failAt \in {"none", "encode"} THEN 200 ELSE 500

\* try: ... return StreamingResponse / except Exception: raise HTTPException(500)
TryBlockStatus(failAt) == IF failAt = "none" THEN 200 ELSE 500

\* UploadFile.content_type of a part without a Content-Type header: None
MissingContentType == <<None>>

ContentTypes == {MissingContentType, <<>>, <<"text", "plain">>, <<"image", "png">>}
FontParams == {None, "opensans", "lato", "nonexistent"}
FailPoints == {"none"} \cup SeqRange(Pipeline)

\* the uploads of the service model: decoded size and mode, quote, attribution
ServiceImages ==
    { [width |-> 90, height |-> 60, mode |-> "RGB"],
      [width |-> 400, height |-> 100, mode |-> "RGBA"] }
ServiceQuotes == { <<1, 2, Space, 2, 1>> }
ServiceAttributions == { <<1>> }
ServiceLoadable == { {}, FileUniverse \cup SystemPaths }

Init ==
    /\ started = FALSE
    /\ fontsDirExists \in BOOLEAN
    /\ dirFiles \in SUBSET FileUniverse
    /\ (~fontsDirExists => dirFiles = {})
    /\ font_cache = <<>>
    /\ firstDiscovery = [called |-> FALSE, ret |-> <<>>]
    /\ resp = NoResponse
    /\ fontCall = [state |-> "idle"]
    /\ wrapCall = [state |-> "idle"]
    /\ layoutCall = [state |-> "idle"]

PureUnchanged == UNCHANGED <<fontCall, wrapCall, layoutCall>>

\* @app.on_event("startup")
Startup ==
    /\ ~started
    /\ \E d \in discover_fonts(font_cache, fontsDirExists, dirFiles) :
          /\ font_cache' = d.cache
          /\ fontsDirExists' = d.exists
          /\ firstDiscovery' = NoteFirst(firstDiscovery, d.ret)
    /\ started' = TRUE
    /\ UNCHANGED <<dirFiles, resp>>
    /\ PureUnchanged

\* GET /
Root ==
    /\ started
    /\ resp' = [NoResponse EXCEPT !.op = "root", !.status = 200, !.kind = "running"]
    /\ UNCHANGED <<started, fontsDirExists, dirFiles, font_cache, firstDiscovery>>
    /\ PureUnchanged

\* GET /health
Health ==
    /\ started
    /\ resp' = [NoResponse EXCEPT !.op = "health", !.status = 200, !.kind = "healthy"]
    /\ UNCHANGED <<started, fontsDirExists, dirFiles, font_cache, firstDiscovery>>
    /\ PureUnchanged

\* GET /fonts
ListFonts ==
    /\ started
    /\ \E d \in discover_fonts(font_cache, fontsDirExists, dirFiles) :
          /\ font_cache' = d.cache
          /\ fontsDirExists' = d.exists
          /\ firstDiscovery' = NoteFirst(firstDiscovery, d.ret)
          /\ resp' = [NoResponse EXCEPT !.op = "fonts", !.status = 200, !.kind = "list",
                                        !.names = Keys(d.ret),
                                        !.default = ListDefault(d.ret)]
    /\ UNCHANGED <<started, dirFiles>>
    /\ PureUnchanged

\* GET /debug/fonts
DebugFonts ==
    /\ started
    /\ \E d \in discover_fonts(font_cache, fontsDirExists, dirFiles) :
          /\ font_cache' = d.cache
          /\ fontsDirExists' = d.exists
          /\ firstDiscovery' = NoteFirst(firstDiscovery, d.ret)
          /\ resp' = [NoResponse EXCEPT !.op = "debug", !.status = 200, !.kind = "debug",
                                        !.names = Keys(d.ret)]
    /\ UNCHANGED <<started, dirFiles>>
    /\ PureUnchanged

\* POST /overlay, rejected or crashed before discover_fonts is called
OverlayBadContentType ==
    /\ started
    /\ \E content_type \in ContentTypes, font \in FontParams :
          /\ content_type = MissingContentType \/ ~StartsWithImage(content_type)
          /\ resp' =
               IF content_type = MissingContentType
               THEN \* None has no startswith: AttributeError outside the try block
                    [NoResponse EXCEPT !.op = "overlay", !.status = 500,
                                       !.kind = "unhandled",
                                       !.content_type = content_type, !.reqfont = font,
                                       !.stages = <<"content_type">>]
               ELSE [NoResponse EXCEPT !.op = "overlay", !.status = 400,
                                       !.kind = "not_image",
                                       !.content_type = content_type, !.reqfont = font,
                                       !.stages = <<"content_type">>]
    /\ UNCHANGED <<started, fontsDirExists, dirFiles, font_cache, firstDiscovery>>
    /\ PureUnchanged

\* POST /overlay with an image/* upload
OverlayImage ==
    /\ started
    /\ \E content_type \in ContentTypes, font \in FontParams,
          d \in discover_fonts(font_cache, fontsDirExists, dirFiles) :
          /\ content_type # MissingContentType /\ StartsWithImage(content_type)
          /\ font_cache' = d.cache
          /\ fontsDirExists' = d.exists
          /\ firstDiscovery' = NoteFirst(firstDiscovery, d.ret)
          /\ IF font # None /\ font \notin KeySet(d.ret)
             THEN resp' = [NoResponse EXCEPT !.op = "overlay", !.status = 400,
                                             !.kind = "invalid_font",
                                             !.content_type = content_type,
                                             !.reqfont = font,
                                             !.names = Keys(d.ret),
                                             !.stages = <<"content_type", "discover", "font">>]
             ELSE \E failAt \in FailPoints, image \in ServiceImages,
                     quote \in ServiceQuotes, attribution \in ServiceAttributions,
                     loadable \in ServiceLoadable :
                     LET use == IF font = None THEN OverlayDefault(d.ret) ELSE font
                         out == add_translucent_box_with_text(
                                    image, quote, attribution, use, d.ret, dirFiles, loadable)
                         status == TryBlockStatus(failAt)
                     IN resp' = [NoResponse EXCEPT
                                   !.op = "overlay", !.status = status,
                                   !.kind = IF status = 200 THEN "jpeg" ELSE "processing",
                                   !.content_type = content_type,
                                   !.reqfont = font, !.font = use,
                                   !.names = Keys(d.ret),
                                   !.stages = <<"content_type", "discover", "font">>
                                              \o StagesRun(failAt),
                                   !.failAt = failAt,
                                   !.box = IF status = 200
                                           THEN [w |-> out.box_width, h |-> out.box_height,
                                                 x |-> out.box_x, y |-> out.box_y]
                                           ELSE NoBox]
    /\ UNCHANGED <<started, dirFiles>>
    /\ PureUnchanged

\* the environment: font files come and go, the directory may be removed
AddFontFile ==
    /\ fontsDirExists
    /\ \E f \in FileUniverse \ dirFiles : dirFiles' = dirFiles \cup {f}
    /\ UNCHANGED <<started, fontsDirExists, font_cache, firstDiscovery, resp>>
    /\ PureUnchanged

RemoveFontFile ==
    /\ \E f \in dirFiles : dirFiles' = dirFiles \ {f}
    /\ UNCHANGED <<started, fontsDirExists, font_cache, firstDiscovery, resp>>
    /\ PureUnchanged

RemoveFontsDir ==
    /\ fontsDirExists
    /\ fontsDirExists' = FALSE
    /\ dirFiles' = {}
    /\ UNCHANGED <<started, font_cache, firstDiscovery, resp>>
    /\ PureUnchanged

Next ==
    \/ Startup
    \/ Root
    \/ Health
    \/ ListFonts
    \/ DebugFonts
    \/ OverlayBadContentType
    \/ OverlayImage
    \/ AddFontFile
    \/ RemoveFontFile
    \/ RemoveFontsDir

Spec == Init /\ [][Next]_vars

\* ------------------------------------------------------------------------
\* Specifications of the pure functions: the inputs are drawn by the
\* initial condition and one action applies the function.
\* ------------------------------------------------------------------------
MaxTextLen == 6
MaxQuoteLen == 4

Chars == Glyphs \cup {Space}

ServiceIdle ==
    /\ started = FALSE
    /\ fontsDirExists = FALSE
    /\ dirFiles = {}
    /\ font_cache = <<>>
    /\ firstDiscovery = [called |-> FALSE, ret |-> <<>>]
    /\ resp = NoResponse

ServiceUnchanged ==
    UNCHANGED <<started, fontsDirExists, dirFiles, font_cache, firstDiscovery, resp>>

\* every dict discover_fonts can return for some directory content
FontDicts ==
    UNION {{d.ret : d \in discover_fonts(<<>>, TRUE, fs)} : fs \in SUBSET FileUniverse}

\* ---- get_font ----
InitFont ==
    /\ ServiceIdle
    /\ wrapCall = [state |-> "idle"]
    /\ layoutCall = [state |-> "idle"]
    /\ \E fonts \in FontDicts, files \in SUBSET FileUniverse,
          loadable \in SUBSET (FileUniverse \cup SystemPaths),
          font_name \in {"opensans", "lato", "nonexistent"} :
          fontCall = [state |-> "pending", size |-> 24, font_name |-> font_name,
                      fonts |-> fonts, files |-> files, loadable |-> loadable,
                      out |-> NotLoaded(<<>>)]

GetFont ==
    /\ fontCall.state = "pending"
    /\ fontCall' = [fontCall EXCEPT
                      !.state = "done",
                      !.out = get_font(fontCall.size, fontCall.font_name, fontCall.fonts,
                                       fontCall.files, fontCall.loadable)]
    /\ ServiceUnchanged
    /\ UNCHANGED <<wrapCall, layoutCall>>

NextFont == GetFont

SpecFont == InitFont /\ [][NextFont]_vars

\* ---- wrap_text ----
\* image widths whose text width (box width - 2 * padding) the wrapper gets
WrapImageWidths == {50, 100, 107, 115, 123, 130, 145, 160}

WrapFonts == {Handle("system", font_paths[2], 24), Handle("default", <<>>, 24)}

InitWrap ==
    /\ ServiceIdle
    /\ fontCall = [state |-> "idle"]
    /\ layoutCall = [state |-> "idle"]
    /\ \E text \in SeqsUpTo(Chars, MaxTextLen), w \in WrapImageWidths, font \in WrapFonts :
          wrapCall = [state |-> "pending", text |-> text, font |-> font,
                      max_width |-> BoxWidth(w) - (box_padding * 2),
                      lines |-> <<>>]

WrapText ==
    /\ wrapCall.state = "pending"
    /\ wrapCall' = [wrapCall EXCEPT
                      !.state = "done",
                      !.lines = wrap_text(wrapCall.text, wrapCall.font,
                                          wrapCall.max_width, FontMode("RGBA"))]
    /\ ServiceUnchanged
    /\ UNCHANGED <<fontCall, layoutCall>>

NextWrap == WrapText

SpecWrap == InitWrap /\ [][NextWrap]_vars

\* ---- add_translucent_box_with_text ----
LayoutWidths == {50, 100, 115, 130, 1000}
LayoutHeights == {10, 101, 800}
LayoutModes == {"RGB", "RGBA", "P"}
LayoutAttributions == {<<>>, <<1>>, <<2, Space, 1>>}
LayoutLoadable == {{}, {font_paths[2]}}

NoLayout == add_translucent_box_with_text(
                [width |-> 1, height |-> 1, mode |-> "RGBA"], <<>>, <<>>, "opensans",
                <<>>, {}, {})

InitLayout ==
    /\ ServiceIdle
    /\ fontCall = [state |-> "idle"]
    /\ wrapCall = [state |-> "idle"]
    /\ \E width \in LayoutWidths, height \in LayoutHeights, mode \in LayoutModes,
          quote \in SeqsUpTo(Chars, MaxQuoteLen), attribution \in LayoutAttributions,
          loadable \in LayoutLoadable :
          layoutCall = [state |-> "pending",
                        image |-> [width |-> width, height |-> height, mode |-> mode],
                        quote |-> quote, attribution |-> attribution,
                        font_name |-> "opensans", fonts |-> <<>>, files |-> {},
                        loadable |-> loadable, out |-> NoLayout]

AddBox ==
    /\ layoutCall.state = "pending"
    /\ layoutCall' = [layoutCall EXCEPT
                        !.state = "done",
                        !.out = add_translucent_box_with_text(
                                    layoutCall.image, layoutCall.quote,
                                    layoutCall.attribution, layoutCall.font_name,
                                    layoutCall.fonts, layoutCall.files,
                                    layoutCall.loadable)]
    /\ ServiceUnchanged
    /\ UNCHANGED <<fontCall, wrapCall>>

NextLayout == AddBox

SpecLayout == InitLayout /\ [][NextLayout]_vars

\* ------------------------------------------------------------------------
\* Properties
\* ------------------------------------------------------------------------
IsOverlay == resp.op = "overlay"
ImageUpload == resp.content_type # MissingContentType /\ StartsWithImage(resp.content_type)
UnknownFont == resp.reqfont # None /\ resp.reqfont \notin SeqRange(resp.names)
Ran(stage) == stage \in SeqRange(resp.stages)

\* C1: a POST /overlay whose content type is not image/* (a missing content
\* type included) or whose font name is not a discovered one is answered
\* with a client error, the unknown-font error listing the valid names, and
\* neither decoding nor compositing is started; the content type is decided
\* before the font.
C1_InvalidInputRejected ==
    (IsOverlay /\ (~ImageUpload \/ UnknownFont)) =>
        /\ resp.status = 400
        /\ ~Ran("read") /\ ~Ran("decode") /\ ~Ran("composite")
        /\ ~ImageUpload => (resp.kind = "not_image" /\ ~Ran("discover") /\ ~Ran("font"))
        /\ ImageUpload => (resp.kind = "invalid_font" /\ resp.names = Keys(font_cache))

\* C2: a POST /overlay that passed validation ends in exactly one of a
\* complete JPEG response, after read, decode, compositing, flattening and
\* encoding all ran without failure, or a server error; a failure at any of
\* those steps yields the server error and never an image.
C2_JpegOrServerError ==
    (IsOverlay /\ ImageUpload /\ ~UnknownFont) =>
        /\ \/ resp.status = 200 /\ resp.kind = "jpeg"
           \/ resp.status = 500 /\ resp.kind = "processing"
        /\ resp.status = 200 <=> (resp.failAt = "none")
        /\ resp.status = 200 => \A i \in 1..Len(Pipeline) : Ran(Pipeline[i])
        /\ resp.failAt # "none" => (resp.status = 500 /\ resp.box = NoBox)

C2_Witness ==
    /\ IsOverlay /\ ImageUpload /\ ~UnknownFont
    /\ resp.failAt = "encode" /\ resp.status = 500 /\ Ran("composite")

\* C3: the font cache is populated once, by the first discover_fonts call,
\* and is read-only thereafter: whatever the directory does, the cache and
\* every later discover_fonts result equal what the first call discovered.
C3_CacheIsFirstDiscovery ==
    firstDiscovery.called =>
        /\ font_cache = firstDiscovery.ret
        /\ resp.op \in {"fonts", "debug"} => resp.names = Keys(firstDiscovery.ret)
        /\ (IsOverlay /\ Ran("discover")) => resp.names = Keys(firstDiscovery.ret)

\* C9: without a font name POST /overlay is never rejected for its font and
\* uses "opensans" if discovered, else the first discovered font; whenever a
\* font is discovered this is the default GET /fonts reports for the same
\* discovered fonts.
C9_DefaultFont ==
    /\ (IsOverlay /\ ImageUpload /\ resp.reqfont = None) =>
          /\ resp.status # 400 /\ resp.kind # "invalid_font"
          /\ "opensans" \in SeqRange(resp.names) => resp.font = "opensans"
          /\ ("opensans" \notin SeqRange(resp.names) /\ resp.names # <<>>)
                => resp.font = resp.names[1]
          /\ resp.names # <<>> =>
                (resp.names = Keys(font_cache) /\ resp.font = ListDefault(font_cache))
    /\ (resp.op = "fonts" /\ resp.names # <<>>) =>
          resp.default = (IF "opensans" \in SeqRange(resp.names)
                          THEN "opensans" ELSE resp.names[1])

C9_Witness ==
    /\ IsOverlay /\ ImageUpload /\ resp.reqfont = None
    /\ resp.names = <<"lato", "opensans">>
    /\ resp.font = "opensans" /\ resp.status = 200

\* ---- get_font ----
\* the sources of one call, in fallback order: named, first discovered, system, built-in
Chain(font_name, fonts) ==
    (IF font_name \in KeySet(fonts)
     THEN <<Source("named", fonts[Lookup(fonts, font_name)].file)>> ELSE <<>>)
    \o (IF fonts # <<>> THEN <<Source("first", fonts[1].file)>> ELSE <<>>)
    \o [i \in 1..Len(font_paths) |-> Source("system", font_paths[i])]
    \o <<Source("default", <<>>)>>

CanLoad(src, files, loadable) ==
    \/ src.kind = "default"
    \/ /\ src.path \in loadable
       /\ src.kind \in {"named", "first"} => src.path \in files

\* C4: get_font tries named font, first discovered font, the system paths
\* in list order, then the built-in face; it returns the first that loads,
\* tries nothing after it, and always returns a handle.
C4_FallbackOrder ==
    fontCall.state = "done" =>
        LET c == fontCall
            chain == Chain(c.font_name, c.fonts)
            k == CHOOSE i \in 1..Len(chain) :
                    /\ CanLoad(chain[i], c.files, c.loadable)
                    /\ \A j \in 1..(i - 1) : ~CanLoad(chain[j], c.files, c.loadable)
            Attempted(src) == ~(src.kind = "named" /\ src.path \notin c.files)
        IN /\ c.out.loaded
           /\ c.out.font.kind \in {"named", "first", "system", "default"}
           /\ c.out.font.kind = chain[k].kind /\ c.out.font.path = chain[k].path
           /\ c.out.font.size = c.size
           /\ c.out.tried = SelectSeq(SubSeq(chain, 1, k), Attempted)
           /\ c.out.tried[Len(c.out.tried)] = chain[k]

C4_Witness ==
    /\ fontCall.state = "done"
    /\ fontCall.out.font.kind = "system"
    /\ fontCall.out.font.path = font_paths[2]
    /\ Len(fontCall.out.tried) = 4
    /\ fontCall.out.tried[1].kind = "named"
    /\ fontCall.out.tried[2].kind = "first"
    /\ fontCall.out.tried[1].path # fontCall.out.tried[2].path

\* ---- wrap_text ----
RECURSIVE WordsOf(_)
WordsOf(lines) ==
    IF lines = <<>> THEN <<>> ELSE Split(Head(lines)) \o WordsOf(Tail(lines))

LineWidth(line, font) ==
    textbbox(FontMode("RGBA"), line, font).x1 - textbbox(FontMode("RGBA"), line, font).x0

\* C5: the words of the returned lines, read line by line, are exactly the
\* whitespace-split words of the input, no line is empty, and a text
\* without words yields no line.
C5_WordsPreserved ==
    wrapCall.state = "done" =>
        /\ WordsOf(wrapCall.lines) = Split(wrapCall.text)
        /\ \A i \in 1..Len(wrapCall.lines) :
              /\ wrapCall.lines[i] # <<>>
              /\ wrapCall.lines[i] = Join(Split(wrapCall.lines[i]))
        /\ (\A i \in 1..Len(wrapCall.text) : wrapCall.text[i] = Space)
              => wrapCall.lines = <<>>
        /\ \A i \in 1..Len(Split(wrapCall.text)) :
              /\ Split(wrapCall.text)[i] # <<>>
              /\ Space \notin SeqRange(Split(wrapCall.text)[i])

C5_Witness ==
    /\ wrapCall.state = "done"
    /\ Len(wrapCall.lines) = 2
    /\ Len(Split(wrapCall.text)) = 3
    /\ Len(wrapCall.text) = MaxTextLen

\* C6: every returned line measures at most max_width, zero and negative
\* widths included, except a line of a single word that is itself wider.
C6_LinesFit ==
    wrapCall.state = "done" =>
        \A i \in 1..Len(wrapCall.lines) :
            \/ LineWidth(wrapCall.lines[i], wrapCall.font) <= wrapCall.max_width
            \/ /\ Len(Split(wrapCall.lines[i])) = 1
               /\ LineWidth(wrapCall.lines[i], wrapCall.font) > wrapCall.max_width

C6_Witness ==
    /\ wrapCall.state = "done"
    /\ wrapCall.max_width > 0
    /\ \E i, j \in 1..Len(wrapCall.lines) :
          /\ Len(Split(wrapCall.lines[i])) = 2
          /\ LineWidth(wrapCall.lines[i], wrapCall.font) = wrapCall.max_width
          /\ Len(Split(wrapCall.lines[j])) = 1
          /\ LineWidth(wrapCall.lines[j], wrapCall.font) > wrapCall.max_width

\* ---- add_translucent_box_with_text ----
LayoutDone == layoutCall.state = "done"

RECURSIVE SumLineHeights(_, _)
SumLineHeights(lines, font) ==
    IF lines = <<>> THEN 0
    ELSE (textbbox("L", Head(lines), font).y1 - textbbox("L", Head(lines), font).y0) + 10
         + SumLineHeights(Tail(lines), font)

MeasuredAttributionHeight(c) ==
    textbbox("L", <<Dash, Space>> \o c.attribution, c.out.attribution_font).y1
    - textbbox("L", <<Dash, Space>> \o c.attribution, c.out.attribution_font).y0

\* C7: box width is floor(0.8 * image width) and the box is centered on both
\* axes with floor division and no clamping, so box_y is negative whenever
\* the box is higher than the image.
C7_BoxCentered ==
    LayoutDone =>
        LET o == layoutCall.out
            W == layoutCall.image.width
            H == layoutCall.image.height
        IN /\ 10 * o.box_width <= 8 * W /\ 8 * W < 10 * (o.box_width + 1)
           /\ 2 * o.box_x <= W - o.box_width /\ W - o.box_width <= 2 * o.box_x + 1
           /\ 2 * o.box_y <= H - o.box_height /\ H - o.box_height <= 2 * o.box_y + 1
           /\ o.box_height > H => o.box_y < 0
           /\ W = 1000 => (o.box_width = 800 /\ o.box_x = 100)

C7_Witness ==
    /\ LayoutDone
    /\ layoutCall.out.box_height > layoutCall.image.height + 1
    /\ layoutCall.out.box_y < 0
    /\ layoutCall.image.width = 1000

\* C8: box height is the sum over the wrapped quote lines of (line height +
\* 10), plus the attribution height, plus 2 * 40 + 20, whatever the image
\* height; an empty quote has no lines and the box is attribution height +
\* 100 high.
C8_BoxHeight ==
    LayoutDone =>
        LET c == layoutCall
            o == layoutCall.out
        IN /\ o.box_height = SumLineHeights(o.quote_lines, o.quote_font)
                             + MeasuredAttributionHeight(c) + 2 * 40 + 20
           /\ \A h \in LayoutHeights :
                 add_translucent_box_with_text(
                     [c.image EXCEPT !.height = h], c.quote, c.attribution, c.font_name,
                     c.fonts, c.files, c.loadable).box_height = o.box_height
           /\ Split(c.quote) = <<>> =>
                 /\ o.quote_lines = <<>>
                 /\ o.box_height = MeasuredAttributionHeight(c) + 100

C8_Witness ==
    /\ LayoutDone
    /\ Len(layoutCall.out.quote_lines) >= 2
    /\ layoutCall.out.box_height > layoutCall.out.attribution_height + 100 + 20

\* C10: the first quote line is drawn at box_y + 40, each next line at the
\* previous y plus (line height + 10), the attribution 20 below the final
\* cursor, and the attribution's draw y plus its height is box_y +
\* box_height - 40: the heights measured for the box and for the cursor agree.
C10_TextInsideBox ==
    LayoutDone =>
        LET o == layoutCall.out
            n == Len(o.drawn)
            last == IF n = 0 THEN o.box_y + 40 ELSE o.drawn[n].y + o.drawn[n].height + 10
        IN /\ n = Len(o.quote_lines)
           /\ \A i \in 1..n : o.drawn[i].text = o.quote_lines[i]
           /\ n > 0 => o.drawn[1].y = o.box_y + 40
           /\ \A i \in 1..(n - 1) : o.drawn[i + 1].y = o.drawn[i].y + o.drawn[i].height + 10
           /\ o.attr_y = last + 20
           /\ o.attr_drawn_height = o.attribution_height
           /\ o.attr_y + o.attribution_height = o.box_y + o.box_height - 40

C10_Witness ==
    /\ LayoutDone
    /\ Len(layoutCall.out.drawn) >= 2
    /\ layoutCall.image.mode = "P"
    /\ \E i \in 1..Len(layoutCall.out.drawn) : 2 \in SeqRange(layoutCall.out.drawn[i].text)

====
